---- MODULE Spec2Model ----
(***************************************************************************)
(* Model of the two entry points of the huawei-mqtt-publisher add-on:      *)
(*   main.py        - the synchronous publisher with the lock file, the    *)
(*                    change cache, the conflict heuristic and the forced  *)
(*                    reconnect;                                           *)
(*   huawei_mqtt.py - the asyncio publisher with the shutdown event and    *)
(*                    the unbounded retry loops.                           *)
(* A behaviour runs one of the two programs (variable program), next to a  *)
(* rival instance of main.py that competes for the same lock file.         *)
(* Times are in milliseconds, measured values in units of CHANGE_EPS / 2.  *)
(***************************************************************************)
EXTENDS Integers, Sequences, FiniteSets, TLC

\* ------------------------------------------------------------------ bounds
\* poll cycles of main.py's control loop that are explored
MaxCycles == 4
\* iterations of huawei_mqtt.py's _modbus_loop that are explored
MaxIterations == 12
\* PERIODIC_EVERY is read from the environment (default 8); explored value
PERIODIC_EVERY == 2
\* the history counts the consecutive failed connects of an endpoint up to
MaxRetries == 8
\* the largest register value of the change detector's own specification
MaxValue == 3

\* ------------------------------------------------------- program constants
FAIL_RECONNECT_THRESHOLD == 6
READ_INTERVAL == 1200
PER_READ_DELAY == 120
COOLDOWN_ON_CONFLICT_S == 5000
CHANGE_EPS == 2
RECONNECT_COOLDOWN == 1000
POST_RECONNECT_DELAY == 500
MQTT_SETTLE_DELAY == 1000
\* huawei_mqtt.py
MAX_BACKOFF == 60
MQTT_WAIT_POLLS == 30
PERIODIC_AFTER == 5
POLL_SLEEP == 1000
RESTART_DELAY == 2000

\* the fixed retry schedule of main.py's connect loops, in seconds
BACKOFFS == <<1, 2, 4, 8, 16, 30>>

\* the frequent and the periodic measurement sets (a prefix of the defaults)
VARS_IMMEDIATE == <<"INPUT_POWER", "ACTIVE_POWER">>
VARS_PERIODIC == <<"DEVICE_STATUS">>

\* a topic is the prefix and the name that follows it
PREFIX == "inverter/Huawei/"
Topic(name) == << PREFIX, name >>
\* the two sets of huawei_mqtt.py (a prefix of each)
VARS_IMMEDIATE_ASYNC == <<"PV_01_VOLTAGE", "PV_01_CURRENT">>
VARS_PERIODIC_ASYNC == <<"DEVICE_STATUS", "FAULT_CODE">>

STATUS_TOPIC == Topic("status")
HEALTH_TOPIC == Topic("health")
PUBLISH_CHANGED_ONLY == TRUE
ONLINE_MAIN == "online [check mark]"

CONFLICT_PATTERNS ==
  { "request ask for transaction_id",
    "Cancel send, because not connected",
    "No response received after 3 retries",
    "ConnectionInterruptedException" }

\* ------------------------------------------------------------- environment
\* register values the device may return: numbers, not-a-number, text
Num(n) == [kind |-> "num", v |-> n]
NaN == [kind |-> "nan", v |-> 0]
Text(s) == [kind |-> "text", v |-> s]
ReadValues == { Num(0), Num(2) }

\* error texts of a failed read, as the fragments they are made of
ErrorTexts ==
  { <<"Modbus Error: ", "timed out">>,
    <<"Modbus Error: ", "No response received after 3 retries">>,
    <<"ConnectionInterruptedException">> }

\* no read made yet
NoRead == [key |-> "none", raised |-> FALSE, val |-> NaN]

Procs == { "self", "rival" }
Pid(p) == IF p = "self" THEN 101 ELSE 202

Min(a, b) == IF a < b THEN a ELSE b
Abs(x) == IF x < 0 THEN -x ELSE x

VARIABLES
  program,        \* which entry point this behaviour runs: "main" | "async"
  pc,             \* position of the program
  exit_status,    \* -1 while running, else the process exit status
  exit_cause,     \* "none" | "lock" | "uncaught" | "interrupt" | "done"
  flock_holders,  \* processes holding the exclusive flock on LOCK_FILE
  lock_file,      \* pid at the start of LOCK_FILE, 0 when never written
  rival,          \* the rival instance: "absent" | "running"
  last_acquire,   \* last acquire_lock call: [proc, held, ok]
  touched_device, \* self has opened a socket to the inverter
  attempt,        \* main.py: index into BACKOFFS of the running connect loop
  sleeps,         \* sleeps of the running connect loop / of the last step
  broker_session, \* the broker holds a session of this client
  status_retained,\* retained payload of the status topic at the broker
  published,      \* publish calls of the last step
  HSClientSync,   \* main.py: the synchronous client class was importable
  mode,           \* main.py: "none" | "sync" | "async"
  hclient,        \* handle of the device client in use, 0 when none
  open_handles,   \* device handles whose connection is open
  resume,         \* main.py: where the loop continues after a connect
  idx,            \* index of the next key in the set being polled
  periodic_tick,
  read_ok_total,
  read_fail_total,
  consecutive_fail_reads,
  consecutive_conflicts,
  ok,
  fail,
  cycle_conflicts,
  last_values,    \* _last_values: key name -> last published value
  cycle,          \* history: poll cycles started
  reads,          \* history: key name -> reads issued
  reconnect_calls,\* history: calls of _reconnect_huawei
  fail_run,       \* history: failed reads since the last successful read
  run_reconnects, \* history: _reconnect_huawei calls since that read
  saw_conflict,   \* history: a read of this cycle failed with a signature
  signature_fails,\* history: failed reads of this cycle whose text has one
  tally,          \* history: reads issued in this cycle and the sums of
                  \* ok and of fail over the cycles that ended
  observed,       \* history: main.py's last read: [key, raised, val]
  failures,       \* history: endpoint -> failed connects since its last success
  slept,          \* history: endpoint -> seconds slept after the last of them
  shutdown_event, \* huawei_mqtt.py: the asyncio.Event set by the signals
  connected_flag, \* huawei_mqtt.py: client.connected_flag
  loop_running,   \* huawei_mqtt.py: the client's network thread runs
  backoff_main,   \* huawei_mqtt.py: backoff of main
  backoff_mqtt,   \* huawei_mqtt.py: backoff of _connect_mqtt_with_retries
  backoff_huawei, \* huawei_mqtt.py: backoff of _connect_huawei_with_retries
  polls,          \* huawei_mqtt.py: passes of "for _ in range(30)" done
  periodic_ctr,   \* huawei_mqtt.py: periodic_ctr of _modbus_loop
  connect_requested \* huawei_mqtt.py: connect_fn was called on the client

lockVars == << flock_holders, lock_file, rival, last_acquire >>
procVars == << program, pc, exit_status, exit_cause >>
brokerVars == << broker_session, status_retained, published >>
devVars == << HSClientSync, mode, hclient, open_handles, touched_device >>
connVars == << attempt, sleeps, resume >>
counterVars == << periodic_tick, read_ok_total, read_fail_total,
                  consecutive_fail_reads, consecutive_conflicts, ok, fail,
                  cycle_conflicts >>
readHist == << cycle, reads, reconnect_calls, fail_run, run_reconnects,
               observed,
               saw_conflict, signature_fails, tally >>
histVars == << readHist, failures, slept >>
loopVars == << idx, last_values, counterVars, histVars >>
asyncVars == << shutdown_event, connected_flag, loop_running, backoff_main,
                backoff_mqtt, backoff_huawei, polls, periodic_ctr,
                connect_requested >>

vars == << lockVars, procVars, brokerVars, devVars, connVars, loopVars,
           asyncVars >>

Endpoints == { "broker", "device", "top" }

SeqRange(q) == { q[i] : i \in DOMAIN q }
AllKeys == SeqRange(VARS_IMMEDIATE) \cup SeqRange(VARS_PERIODIC)
             \cup SeqRange(VARS_IMMEDIATE_ASYNC)
             \cup SeqRange(VARS_PERIODIC_ASYNC)

Init ==
  /\ program \in { "main", "async" }
  /\ pc = IF program = "main" THEN "boot" ELSE "main"
  /\ exit_status = -1
  /\ exit_cause = "none"
  /\ flock_holders = {}
  /\ lock_file = 0
  /\ rival = "absent"
  /\ last_acquire = [proc |-> "none", held |-> FALSE, ok |-> FALSE]
  /\ touched_device = FALSE
  /\ attempt = 0
  /\ sleeps = << >>
  /\ broker_session = FALSE
  /\ status_retained = "none"
  /\ published = << >>
  /\ observed = NoRead
  /\ HSClientSync \in IF program = "main" THEN BOOLEAN ELSE { FALSE }
  /\ mode = "none"
  /\ hclient = 0
  /\ open_handles = {}
  /\ resume = [phase |-> "startup", idx |-> 0]
  /\ idx = 0
  /\ periodic_tick = 0
  /\ read_ok_total = 0
  /\ read_fail_total = 0
  /\ consecutive_fail_reads = 0
  /\ consecutive_conflicts = 0
  /\ ok = 0
  /\ fail = 0
  /\ cycle_conflicts = 0
  /\ last_values = [k \in {} |-> NaN]
  /\ cycle = 0
  /\ reads = [k \in AllKeys |-> 0]
  /\ reconnect_calls = 0
  /\ fail_run = 0
  /\ run_reconnects = 0
  /\ saw_conflict = FALSE
  /\ signature_fails = 0
  /\ tally = [cycle_reads |-> 0, sum_ok |-> 0, sum_fail |-> 0]
  /\ failures = [e \in Endpoints |-> 0]
  /\ slept = [e \in Endpoints |-> 0]
  /\ shutdown_event = FALSE
  /\ connected_flag = FALSE
  /\ loop_running = FALSE
  /\ backoff_main = 1
  /\ backoff_mqtt = 1
  /\ backoff_huawei = 1
  /\ polls = 0
  /\ periodic_ctr = 0
  /\ connect_requested = FALSE

\* ----------------------------------------------------------- instance lock
\* faulty variant: the lock taken shared (LOCK_SH), which never blocks a second taker
FlockGrantedShared(holders) == TRUE

\* fcntl.flock(fd, LOCK_EX | LOCK_NB): granted iff no other open file
\* description holds a lock on the file
FlockGranted(holders) == holders = {}

\* faulty variant: BlockingIOError logged and swallowed, the import goes on
OnLockHeldContinue == [pc |-> "resolve_port", status |-> -1, cause |-> "none"]

\* acquire_lock's except branch: log and sys.exit(1)
OnLockHeld == [pc |-> "exited", status |-> 1, cause |-> "lock"]

\* the memory of a process that has ended: every variable of the program
\* is back to the value it has before the program starts
MemoryLost ==
  /\ attempt' = 0
  /\ resume' = [phase |-> "startup", idx |-> 0]
  /\ mode' = "none"
  /\ hclient' = 0
  /\ idx' = 0
  /\ last_values' = [k \in {} |-> NaN]
  /\ periodic_tick' = 0
  /\ read_ok_total' = 0
  /\ read_fail_total' = 0
  /\ consecutive_fail_reads' = 0
  /\ consecutive_conflicts' = 0
  /\ ok' = 0
  /\ fail' = 0
  /\ cycle_conflicts' = 0
  /\ shutdown_event' = FALSE
  /\ connected_flag' = FALSE
  /\ loop_running' = FALSE
  /\ backoff_main' = 1
  /\ backoff_mqtt' = 1
  /\ backoff_huawei' = 1
  /\ polls' = 0
  /\ periodic_ctr' = 0
  /\ connect_requested' = FALSE

\* what the end of the process does to the rest of the world: the kernel
\* drops the flock and closes the sockets, and the broker, whose session
\* ends without a DISCONNECT, publishes the last will ("offline", retained).
\* The caller says what the last step slept and published, and what it did
\* to the history of the connect attempts.
Terminate(status, cause) ==
  /\ pc' = "exited"
  /\ exit_status' = status
  /\ exit_cause' = cause
  /\ flock_holders' = flock_holders \ { "self" }
  /\ open_handles' = {}
  /\ broker_session' = FALSE
  /\ status_retained' = IF broker_session THEN "offline" ELSE status_retained
  /\ MemoryLost
  /\ UNCHANGED << program, lock_file, rival, last_acquire, HSClientSync,
                  touched_device, readHist >>

\* an exception nobody catches: traceback, exit status 1
Crash == Terminate(1, "uncaught")

\* history of the connect attempts of an endpoint
Failed(e, delay) ==
  /\ failures' = [failures EXCEPT ![e] = Min(@ + 1, MaxRetries)]
  /\ slept' = [slept EXCEPT ![e] = delay]

Succeeded(e) ==
  /\ failures' = [failures EXCEPT ![e] = 0]
  /\ slept' = [slept EXCEPT ![e] = 0]

\* LOCK_FD = acquire_lock(LOCK_FILE), at import time
AcquireLock ==
  /\ program = "main"
  /\ pc = "boot"
  /\ last_acquire' = [proc |-> "self", held |-> flock_holders # {},
                      ok |-> FlockGranted(flock_holders)]
  /\ IF FlockGranted(flock_holders)
       THEN /\ flock_holders' = flock_holders \cup { "self" }
            /\ lock_file' = Pid("self")
            /\ pc' = "resolve_port"
            /\ UNCHANGED << exit_status, exit_cause >>
       ELSE /\ pc' = OnLockHeld.pc
            /\ exit_status' = OnLockHeld.status
            /\ exit_cause' = OnLockHeld.cause
            /\ UNCHANGED << flock_holders, lock_file >>
  /\ UNCHANGED << program, rival, brokerVars, devVars, connVars, loopVars >>
  /\ UNCHANGED asyncVars

\* another instance of main.py starts and runs acquire_lock (huawei_mqtt.py
\* takes no lock: next to it the rival is left out)
RivalStart ==
  /\ program = "main"
  /\ rival = "absent"
  /\ last_acquire' = [proc |-> "rival", held |-> flock_holders # {},
                      ok |-> FlockGranted(flock_holders)]
  /\ IF FlockGranted(flock_holders)
       THEN /\ flock_holders' = flock_holders \cup { "rival" }
            /\ lock_file' = Pid("rival")
            /\ rival' = "running"
       ELSE UNCHANGED << flock_holders, lock_file, rival >>
  /\ UNCHANGED << procVars, brokerVars, devVars, connVars, loopVars >>
  /\ UNCHANGED asyncVars

\* the rival ends (exit or crash): its descriptor is closed
RivalExit ==
  /\ program = "main"
  /\ rival = "running"
  /\ rival' = "absent"
  /\ flock_holders' = flock_holders \ { "rival" }
  /\ UNCHANGED << lock_file, last_acquire, procVars, brokerVars, devVars,
                  connVars, loopVars >>
  /\ UNCHANGED asyncVars

\* MODBUS_PORT = resolve_modbus_port(): "auto" probes the inverter's ports
ResolvePort ==
  /\ program = "main"
  /\ pc = "resolve_port"
  /\ \E auto \in BOOLEAN : touched_device' = auto
  /\ pc' = "mqtt_connect"
  /\ attempt' = 1
  /\ sleeps' = << >>
  /\ UNCHANGED << program, exit_status, exit_cause, lockVars, brokerVars,
                  HSClientSync, mode, hclient, open_handles, resume,
                  loopVars >>
  /\ UNCHANGED asyncVars

\* KeyboardInterrupt: caught around main(), uncaught at import time
Interrupt ==
  /\ program = "main"
  /\ pc # "exited"
  /\ IF pc \in { "boot", "resolve_port" }
       THEN Terminate(130, "interrupt")
       ELSE Terminate(0, "interrupt")
  /\ sleeps' = << >>
  /\ published' = << >>
  /\ UNCHANGED << failures, slept >>

\* ------------------------------------------------- main.py: connect loops
Pub(topic, payload, retain, delivered) ==
  [topic |-> topic, payload |-> payload, retain |-> retain,
   delivered |-> delivered]

\* the delay slept after failed attempt number a of "for backoff in (...)"
BackoffOf(a) == BACKOFFS[a]

\* whether the for loop has another attempt after attempt number a
HasNextAttempt(a) == a < Len(BACKOFFS)

\* mqtt_connect_blocking: one pass of the for loop (connect, settle, the two
\* publishes; an exception of connect: sleep the backoff); the RuntimeError
\* raised after the last pass is caught nowhere. connect returns once the
\* CONNECT packet is sent: the broker's acknowledgement may be there after
\* the settle delay or not (refused, late), the publishes are made either way
MqttConnectBlocking ==
  /\ program = "main"
  /\ pc = "mqtt_connect"
  /\ \E connected \in BOOLEAN :
       IF connected
         THEN /\ \E acked \in BOOLEAN :
                   /\ broker_session' = acked
                   /\ status_retained' =
                        IF acked THEN ONLINE_MAIN ELSE status_retained
                   /\ published' =
                        << Pub(STATUS_TOPIC, ONLINE_MAIN, TRUE, acked),
                           Pub(HEALTH_TOPIC, "owner", FALSE, acked) >>
              /\ sleeps' = Append(sleeps, MQTT_SETTLE_DELAY)
              /\ pc' = "huawei_connect"
              /\ attempt' = 1
              /\ resume' = [phase |-> "startup", idx |-> 0]
              /\ Succeeded("broker")
              /\ UNCHANGED << program, exit_status, exit_cause, lockVars,
                              HSClientSync, mode, hclient, open_handles,
                              touched_device, idx, last_values, counterVars,
                              readHist, asyncVars >>
         ELSE /\ sleeps' = Append(sleeps, 1000 * BackoffOf(attempt))
              /\ published' = << >>
              /\ Failed("broker", BackoffOf(attempt))
              /\ IF HasNextAttempt(attempt)
                   THEN /\ attempt' = attempt + 1
                        /\ UNCHANGED << procVars, lockVars, broker_session,
                                        status_retained, devVars, resume,
                                        idx, last_values, counterVars,
                                        readHist, asyncVars >>
                   ELSE Crash

\* make_huawei_client: the synchronous client when it was importable
PickMode(sync_available) == IF sync_available THEN "sync" ELSE "async"

NextHandle == hclient + 1

\* faulty variant: the last key of each set left out
AdvanceShort(phase, i, tick) ==
  IF phase = "read_immediate"
    THEN IF i + 1 < Len(VARS_IMMEDIATE)
           THEN [pc |-> "read_immediate", idx |-> i + 1, tick |-> tick]
           ELSE [pc |-> "periodic_tick", idx |-> 0, tick |-> tick]
    ELSE IF i + 1 < Len(VARS_PERIODIC)
           THEN [pc |-> "read_periodic", idx |-> i + 1, tick |-> tick]
           ELSE [pc |-> "cycle_end", idx |-> 0, tick |-> 0]

\* the position that follows key number i of a set: the next key, the tick
\* after the frequent set, the end of the cycle (with periodic_tick = 0,
\* line 396) after the periodic set
Advance(phase, i, tick) ==
  IF phase = "read_immediate"
    THEN IF i < Len(VARS_IMMEDIATE)
           THEN [pc |-> "read_immediate", idx |-> i + 1, tick |-> tick]
           ELSE [pc |-> "periodic_tick", idx |-> 0, tick |-> tick]
    ELSE IF i < Len(VARS_PERIODIC)
           THEN [pc |-> "read_periodic", idx |-> i + 1, tick |-> tick]
           ELSE [pc |-> "cycle_end", idx |-> 0, tick |-> 0]

\* the sleeps of the running connect loop so far: the startup loop starts a
\* log of its own, the loop of a reconnect continues _reconnect_huawei's
LoopLog == IF resume.phase = "startup" /\ attempt = 1 THEN << >> ELSE sleeps

\* _connect_huawei_sync / _connect_huawei_async: one pass of the for loop.
\* At startup the caller is main (lines 342-349); after a forced reconnect
\* it is the read loop (lines 370-373 and 391-394).
HuaweiConnect ==
  /\ program = "main"
  /\ pc = "huawei_connect"
  /\ published' = << >>
  /\ \E connected \in BOOLEAN :
       IF connected
         THEN /\ touched_device' = TRUE
              /\ mode' = PickMode(HSClientSync)
              /\ hclient' = NextHandle
              /\ open_handles' = open_handles \cup { NextHandle }
              /\ attempt' = 0
              /\ Succeeded("device")
              /\ IF resume.phase = "startup"
                   THEN /\ sleeps' = LoopLog
                        /\ pc' = "cycle_start"
                        /\ UNCHANGED << idx, periodic_tick,
                                        consecutive_fail_reads >>
                   ELSE LET nxt == Advance(resume.phase, resume.idx,
                                           periodic_tick)
                        IN  /\ sleeps' = Append(sleeps, POST_RECONNECT_DELAY)
                            /\ consecutive_fail_reads' = 0
                            /\ pc' = nxt.pc
                            /\ idx' = nxt.idx
                            /\ periodic_tick' = nxt.tick
              /\ UNCHANGED << program, exit_status, exit_cause, lockVars,
                              broker_session, status_retained, HSClientSync,
                              resume, last_values, read_ok_total,
                              read_fail_total, consecutive_conflicts, ok,
                              fail, cycle_conflicts, readHist, asyncVars >>
         ELSE /\ sleeps' = Append(LoopLog, 1000 * BackoffOf(attempt))
              /\ Failed("device", BackoffOf(attempt))
              /\ IF HasNextAttempt(attempt)
                   THEN /\ attempt' = attempt + 1
                        /\ touched_device' = TRUE
                        /\ UNCHANGED << procVars, lockVars, broker_session,
                                        status_retained, HSClientSync, mode,
                                        hclient, open_handles, resume, idx,
                                        last_values, counterVars, readHist,
                                        asyncVars >>
                   ELSE Crash

\* ---------------------------------------------- main.py: change detector
IsNumber(v) == v.kind \in { "num", "nan" }
IsNaN(v) == v.kind = "nan"

\* faulty variant: the distance compared with > instead of >=
AbsDiffAbove(a, b, eps) ==
  IF IsNaN(a) \/ IsNaN(b) THEN FALSE ELSE Abs(a.v - b.v) > eps

\* abs(float(a) - float(b)) >= eps; every comparison with a NaN is false
AbsDiffAtLeast(a, b, eps) ==
  IF IsNaN(a) \/ IsNaN(b) THEN FALSE ELSE Abs(a.v - b.v) >= eps

\* a != b for values of any kind; a NaN differs from every value, itself
\* included
Differs(a, b) == IsNaN(a) \/ IsNaN(b) \/ a.kind # b.kind \/ a.v # b.v

\* faulty variant: the cache replaced by the one entry
PutOnly(cache, name, val) == [k \in { name } |-> val]

\* _last_values[name] = val
Put(cache, name, val) ==
  [k \in DOMAIN cache \cup { name } |-> IF k = name THEN val ELSE cache[k]]

\* faulty variant: the numeric branch left out, values compared with != only
ChangedByInequality(cache, name, new_val) ==
  IF name \notin DOMAIN cache \/ Differs(new_val, cache[name])
    THEN [changed |-> TRUE, cache |-> Put(cache, name, new_val)]
    ELSE [changed |-> FALSE, cache |-> cache]

\* faulty variant: an entry of the cache is never replaced once it is there
ChangedKeepsFirst(cache, name, new_val) ==
  IF name \notin DOMAIN cache
    THEN [changed |-> TRUE, cache |-> Put(cache, name, new_val)]
    ELSE [changed |-> IF IsNumber(new_val) /\ IsNumber(cache[name])
                        THEN AbsDiffAtLeast(new_val, cache[name], CHANGE_EPS)
                        ELSE Differs(new_val, cache[name]),
          cache |-> cache]

\* _changed(name, new_val): the verdict and _last_values after the call
Changed(cache, name, new_val) ==
  IF name \notin DOMAIN cache
    THEN [changed |-> TRUE, cache |-> Put(cache, name, new_val)]
    ELSE LET old == cache[name]
         IN  IF IsNumber(new_val) /\ IsNumber(old)
               THEN IF IsNaN(new_val) /\ IsNaN(old)
                      THEN [changed |-> FALSE, cache |-> cache]
                      ELSE IF AbsDiffAtLeast(new_val, old, CHANGE_EPS)
                             THEN [changed |-> TRUE,
                                   cache |-> Put(cache, name, new_val)]
                             ELSE [changed |-> FALSE, cache |-> cache]
               ELSE IF Differs(new_val, old)
                      THEN [changed |-> TRUE,
                            cache |-> Put(cache, name, new_val)]
                      ELSE [changed |-> FALSE, cache |-> cache]

\* str(val), the payload of a measurement
Str(val) ==
  CASE val.kind = "num" -> ToString(val.v)
    [] val.kind = "nan" -> "nan"
    [] OTHER -> val.v

\* the error text of a failed read carries one of the fixed signatures
\* somewhere in it
HasSignature(msg) == \E i \in DOMAIN msg : msg[i] \in CONFLICT_PATTERNS

\* faulty variant: the text compared with the signatures as a whole
IsConflictTextExact(msg) == \E pat \in CONFLICT_PATTERNS : msg = << pat >>

\* any(pat in msg for pat in _CONFLICT_PATTERNS)
IsConflictText(msg) ==
  \E pat \in CONFLICT_PATTERNS : \E i \in DOMAIN msg : msg[i] = pat

\* what one read can do: return a value (and then the publish of _publish
\* goes through or raises), or raise with an error text
ReadOutcomes ==
  { [raised |-> FALSE, val |-> v, msg |-> << >>, pub_raises |-> b] :
      v \in ReadValues, b \in BOOLEAN }
  \cup { [raised |-> TRUE, val |-> NaN, msg |-> m, pub_raises |-> FALSE] :
           m \in ErrorTexts }

\* faulty variant: a failed read published as a not-a-number and cached
SafeReadAndPublishStale(cache, key, outcome) ==
  IF outcome.raised
    THEN [okread |-> FALSE, conflict |-> IsConflictText(outcome.msg),
          cache |-> Put(cache, key, NaN),
          published |-> << Pub(Topic(key), Str(NaN), FALSE, TRUE) >>]
    ELSE LET c == Changed(cache, key, outcome.val)
         IN  [okread |-> TRUE, conflict |-> FALSE, cache |-> c.cache,
              published |-> IF c.changed
                              THEN << Pub(Topic(key), Str(outcome.val), FALSE,
                                          ~outcome.pub_raises) >>
                              ELSE << >>]

\* faulty variant: a read that raised reported as a read that succeeded
SafeReadAndPublishOkOnError(cache, key, outcome) ==
  IF outcome.raised
    THEN [okread |-> TRUE, conflict |-> IsConflictText(outcome.msg),
          cache |-> cache, published |-> << >>]
    ELSE LET c == Changed(cache, key, outcome.val)
         IN  [okread |-> TRUE, conflict |-> FALSE, cache |-> c.cache,
              published |-> IF c.changed
                              THEN << Pub(Topic(key), Str(outcome.val), FALSE,
                                          ~outcome.pub_raises) >>
                              ELSE << >>]

\* _safe_read_and_publish(mode, hclient, mqttc, key): (ok_lectura,
\* sospecha_conflicto), _last_values after it and the publish calls it made
SafeReadAndPublish(cache, key, outcome) ==
  IF outcome.raised
    THEN [okread |-> FALSE, conflict |-> IsConflictText(outcome.msg),
          cache |-> cache, published |-> << >>]
    ELSE LET one == << Pub(Topic(key), Str(outcome.val), FALSE,
                           ~outcome.pub_raises) >>
         IN  IF PUBLISH_CHANGED_ONLY
               THEN LET c == Changed(cache, key, outcome.val)
                    IN  [okread |-> TRUE, conflict |-> FALSE,
                         cache |-> c.cache,
                         published |-> IF c.changed THEN one ELSE << >>]
               ELSE [okread |-> TRUE, conflict |-> FALSE, cache |-> cache,
                     published |-> one]

\* ------------------------------------------------- main.py: the poll loop
\* faulty variant: the threshold compared with > instead of >=
NeedsReconnectAbove(n) == n > FAIL_RECONNECT_THRESHOLD

\* consecutive_fail_reads >= FAIL_RECONNECT_THRESHOLD
NeedsReconnect(n) == n >= FAIL_RECONNECT_THRESHOLD

\* faulty variant: the period compared with > instead of >=
PeriodicDueAbove(tick) == tick > PERIODIC_EVERY

\* periodic_tick >= PERIODIC_EVERY
PeriodicDue(tick) == tick >= PERIODIC_EVERY

\* faulty variant: the inter-cycle sleep moved into the else branch
EndOfCycleSleepsEither(conflicts) ==
  IF conflicts > 0 THEN << COOLDOWN_ON_CONFLICT_S >> ELSE << READ_INTERVAL >>

\* the sleeps between the last read of a cycle and the next cycle: the
\* cooldown of a cycle that saw conflicts, and always READ_INTERVAL
EndOfCycleSleeps(conflicts) ==
  IF conflicts > 0 THEN << COOLDOWN_ON_CONFLICT_S, READ_INTERVAL >>
                   ELSE << READ_INTERVAL >>

\* lines 352-355: the head of "while True"
CycleStart ==
  /\ program = "main"
  /\ pc = "cycle_start"
  /\ cycle < MaxCycles
  /\ cycle' = cycle + 1
  /\ ok' = 0
  /\ fail' = 0
  /\ cycle_conflicts' = 0
  /\ saw_conflict' = FALSE
  /\ signature_fails' = 0
  /\ tally' = [tally EXCEPT !.cycle_reads = 0]
  /\ pc' = "read_immediate"
  /\ idx' = 1
  /\ published' = << >>
  /\ UNCHANGED << program, exit_status, exit_cause, lockVars, broker_session,
                  status_retained, devVars, connVars, last_values,
                  periodic_tick, read_ok_total, read_fail_total,
                  consecutive_fail_reads, consecutive_conflicts, reads,
                  reconnect_calls, fail_run, run_reconnects, failures,
                  slept, observed >>
  /\ UNCHANGED asyncVars

\* the body of "for key in <set>": the read, the counters, the delay and
\* the check of the reconnect threshold
ReadKey(phase, keys) ==
  /\ program = "main"
  /\ pc = phase
  /\ \E outcome \in ReadOutcomes :
       LET key == keys[idx]
           r == SafeReadAndPublish(last_values, key, outcome)
           cfr == IF r.okread THEN 0 ELSE consecutive_fail_reads + 1
           nxt == Advance(phase, idx, periodic_tick)
       IN  /\ last_values' = r.cache
           /\ published' = r.published
           /\ ok' = IF r.okread THEN ok + 1 ELSE ok
           /\ read_ok_total' =
                IF r.okread THEN read_ok_total + 1 ELSE read_ok_total
           /\ fail' = IF r.okread THEN fail ELSE fail + 1
           /\ read_fail_total' =
                IF r.okread THEN read_fail_total ELSE read_fail_total + 1
           /\ consecutive_fail_reads' = cfr
           /\ cycle_conflicts' =
                IF r.conflict THEN cycle_conflicts + 1 ELSE cycle_conflicts
           /\ sleeps' = << PER_READ_DELAY >>
           /\ reads' = [reads EXCEPT ![key] = @ + 1]
           /\ observed' = [key |-> key, raised |-> outcome.raised,
                           val |-> outcome.val]
           /\ fail_run' = IF outcome.raised THEN fail_run + 1 ELSE 0
           /\ saw_conflict' =
                (saw_conflict \/ (outcome.raised /\ IsConflictText(outcome.msg)))
           /\ signature_fails' =
                IF outcome.raised /\ HasSignature(outcome.msg)
                  THEN signature_fails + 1 ELSE signature_fails
           /\ tally' = [tally EXCEPT !.cycle_reads = @ + 1]
           /\ IF NeedsReconnect(cfr)
                THEN /\ pc' = "reconnect"
                     /\ resume' = [phase |-> phase, idx |-> idx]
                     /\ reconnect_calls' = reconnect_calls + 1
                     /\ run_reconnects' = run_reconnects + 1
                     /\ UNCHANGED << idx, periodic_tick >>
                ELSE /\ pc' = nxt.pc
                     /\ idx' = nxt.idx
                     /\ periodic_tick' = nxt.tick
                     /\ run_reconnects' =
                          IF outcome.raised THEN run_reconnects ELSE 0
                     /\ UNCHANGED << resume, reconnect_calls >>
  /\ UNCHANGED << program, exit_status, exit_cause, lockVars, broker_session,
                  status_retained, devVars, attempt, consecutive_conflicts,
                  cycle, failures, slept >>
  /\ UNCHANGED asyncVars

\* lines 358-373
ReadImmediate == ReadKey("read_immediate", VARS_IMMEDIATE)

\* lines 379-394
ReadPeriodic == ReadKey("read_periodic", VARS_PERIODIC)

\* _reconnect_huawei up to its call of make_huawei_client: the stop of an
\* asynchronous client (an exception of it is swallowed, and then the
\* connection may or may not have been closed), then the cooldown
ReconnectHuawei ==
  /\ program = "main"
  /\ pc = "reconnect"
  /\ IF mode # "sync"
       THEN \E closed \in BOOLEAN :
              open_handles' = IF closed THEN open_handles \ { hclient }
                                        ELSE open_handles
       ELSE UNCHANGED open_handles
  /\ sleeps' = << RECONNECT_COOLDOWN >>
  /\ pc' = "huawei_connect"
  /\ attempt' = 1
  /\ published' = << >>
  /\ UNCHANGED << program, exit_status, exit_cause, lockVars, broker_session,
                  status_retained, HSClientSync, mode, hclient,
                  touched_device, resume, loopVars >>
  /\ UNCHANGED asyncVars

\* lines 376-378: the tick and the test of the period
PeriodicTick ==
  /\ program = "main"
  /\ pc = "periodic_tick"
  /\ periodic_tick' = periodic_tick + 1
  /\ IF PeriodicDue(periodic_tick + 1)
       THEN pc' = "read_periodic" /\ idx' = 1
       ELSE pc' = "cycle_end" /\ idx' = 0
  /\ published' = << >>
  /\ UNCHANGED << program, exit_status, exit_cause, lockVars, broker_session,
                  status_retained, devVars, connVars, last_values,
                  read_ok_total, read_fail_total, consecutive_fail_reads,
                  consecutive_conflicts, ok, fail, cycle_conflicts,
                  histVars >>
  /\ UNCHANGED asyncVars

\* lines 398-420: the cooldown, the health snapshot, the inter-cycle sleep
CycleEnd ==
  /\ program = "main"
  /\ pc = "cycle_end"
  /\ consecutive_conflicts' =
       IF cycle_conflicts > 0 THEN consecutive_conflicts + cycle_conflicts
                              ELSE 0
  /\ published' =
       << Pub(HEALTH_TOPIC,
              [ok_total |-> read_ok_total, fail_total |-> read_fail_total,
               cycle_ok |-> ok, cycle_fail |-> fail,
               conflicts |-> cycle_conflicts],
              FALSE, broker_session) >>
  /\ sleeps' = EndOfCycleSleeps(cycle_conflicts)
  /\ pc' = "cycle_start"
  /\ tally' = [tally EXCEPT !.sum_ok = @ + ok, !.sum_fail = @ + fail]
  /\ UNCHANGED << program, exit_status, exit_cause, lockVars, broker_session,
                  status_retained, devVars, attempt, resume, idx, last_values,
                  periodic_tick, read_ok_total, read_fail_total,
                  consecutive_fail_reads, ok, fail, cycle_conflicts,
                  cycle, reads, reconnect_calls, fail_run, run_reconnects,
                  observed, saw_conflict, signature_fails, failures, slept >>
  /\ UNCHANGED asyncVars

\* ------------------------------------------------------- huawei_mqtt.py
\* faulty variant: the cap forgotten
NextBackoffUncapped(b) == b * 2

\* faulty variant: the delay never doubled
NextBackoffNoDouble(b) == Min(b, MAX_BACKOFF)

\* backoff = min(backoff * 2, 60). A backoff is a local variable of its
\* function: it holds 1 when the function is entered (lines 181, 224, 374)
\* and is given that value again when the function returns.
NextBackoff(b) == Min(b * 2, MAX_BACKOFF)

\* periodic_ctr > 5
PeriodicDueAsync(ctr) == ctr > PERIODIC_AFTER

\* _signal_handler, on SIGINT or SIGTERM once main has installed it
Signal ==
  /\ program = "async"
  /\ pc \notin { "main", "exited" }
  /\ ~shutdown_event
  /\ shutdown_event' = TRUE
  /\ UNCHANGED << lockVars, procVars, brokerVars, devVars, connVars,
                  loopVars, connected_flag, loop_running, backoff_main,
                  backoff_mqtt, backoff_huawei, polls, periodic_ctr,
                  connect_requested >>

\* on_connect with rc = 0, called by the client's network thread
NetConnAck ==
  /\ program = "async"
  /\ loop_running
  /\ connect_requested
  /\ ~broker_session
  /\ broker_session' = TRUE
  /\ connected_flag' = TRUE
  /\ UNCHANGED << lockVars, procVars, status_retained, published, devVars,
                  connVars, loopVars, shutdown_event, loop_running,
                  backoff_main, backoff_mqtt, backoff_huawei, polls,
                  periodic_ctr, connect_requested >>

\* on_disconnect after a loss of the transport: the broker publishes the will
NetDisconnect ==
  /\ program = "async"
  /\ loop_running
  /\ broker_session
  /\ broker_session' = FALSE
  /\ connected_flag' = FALSE
  /\ status_retained' = "offline"
  /\ UNCHANGED << lockVars, procVars, published, devVars, connVars, loopVars,
                  shutdown_event, loop_running, backoff_main, backoff_mqtt,
                  backoff_huawei, polls, periodic_ctr, connect_requested >>

\* main, lines 366-374: the signal handlers and backoff = 1
AsyncMain ==
  /\ program = "async"
  /\ pc = "main"
  /\ backoff_main' = 1
  /\ pc' = "main_loop"
  /\ UNCHANGED << program, exit_status, exit_cause, lockVars, brokerVars,
                  devVars, connVars, loopVars, shutdown_event, connected_flag,
                  loop_running, backoff_mqtt, backoff_huawei, polls,
                  periodic_ctr, connect_requested >>

\* main, line 375: "while not shutdown_event.is_set()", then asyncio.run ends
MainLoop ==
  /\ program = "async"
  /\ pc = "main_loop"
  /\ sleeps' = << >>
  /\ published' = << >>
  /\ IF shutdown_event
       THEN Terminate(0, "shutdown") /\ UNCHANGED << failures, slept >>
       ELSE /\ pc' = "run_once"
            /\ UNCHANGED << program, exit_status, exit_cause, lockVars,
                            broker_session, status_retained, devVars, attempt,
                            resume, loopVars, asyncVars >>

\* _connect_mqtt_with_retries, lines 181-201: the client, its callbacks, the
\* will, loop_start. An exception here reaches main's "except Exception":
\* sleep(backoff), backoff = min(backoff * 2, 60)
MqttSetup ==
  /\ program = "async"
  /\ pc = "run_once"
  /\ published' = << >>
  /\ \E raises \in BOOLEAN :
       IF raises
         THEN /\ sleeps' = << 1000 * backoff_main >>
              /\ Failed("top", backoff_main)
              /\ backoff_main' = NextBackoff(backoff_main)
              /\ pc' = "main_loop"
              /\ UNCHANGED << backoff_mqtt, connected_flag, loop_running >>
         ELSE /\ sleeps' = << >>
              /\ backoff_mqtt' = 1
              /\ connected_flag' = FALSE
              /\ loop_running' = TRUE
              /\ pc' = "mqtt_loop"
              /\ UNCHANGED << backoff_main, failures, slept >>
  /\ UNCHANGED << program, exit_status, exit_cause, lockVars, broker_session,
                  status_retained, devVars, attempt, resume, idx, last_values,
                  counterVars, readHist, shutdown_event, backoff_huawei,
                  polls, periodic_ctr, connect_requested >>

\* _connect_mqtt_with_retries, lines 202-206 and 214-220: the test of the
\* while loop and the call of connect_fn
MqttAttempt ==
  /\ program = "async"
  /\ pc = "mqtt_loop"
  /\ published' = << >>
  /\ IF shutdown_event
       THEN /\ sleeps' = << >>
            /\ Terminate(0, "shutdown")
            /\ UNCHANGED << failures, slept >>
       ELSE /\ \E raises \in BOOLEAN :
                 IF raises
                   THEN /\ sleeps' = << 1000 * backoff_mqtt >>
                        /\ Failed("broker", backoff_mqtt)
                        /\ backoff_mqtt' = NextBackoff(backoff_mqtt)
                        /\ UNCHANGED << pc, polls, connect_requested >>
                   ELSE /\ sleeps' = << >>
                        /\ connect_requested' = TRUE
                        /\ polls' = 0
                        /\ pc' = "mqtt_wait"
                        /\ UNCHANGED << backoff_mqtt, failures, slept >>
            /\ UNCHANGED << program, exit_status, exit_cause, lockVars,
                            broker_session, status_retained, devVars, attempt,
                            resume, idx, last_values, counterVars, readHist,
                            shutdown_event, connected_flag, loop_running,
                            backoff_main, backoff_huawei, periodic_ctr >>

\* _connect_mqtt_with_retries, lines 207-217: one pass of
\* "for _ in range(30)"; after the last pass the timeout and the backoff
MqttPoll ==
  /\ program = "async"
  /\ pc = "mqtt_wait"
  /\ IF connected_flag
       THEN /\ published' =
                 << Pub(STATUS_TOPIC, "online", TRUE, broker_session) >>
            /\ status_retained' =
                 IF broker_session THEN "online" ELSE status_retained
            /\ sleeps' = << >>
            /\ Succeeded("broker")
            /\ pc' = "huawei_loop"
            /\ backoff_huawei' = 1
            /\ backoff_mqtt' = 1
            /\ polls' = 0
       ELSE /\ published' = << >>
            /\ UNCHANGED << status_retained, backoff_huawei >>
            /\ IF polls + 1 < MQTT_WAIT_POLLS
                 THEN /\ sleeps' = << POLL_SLEEP >>
                      /\ polls' = polls + 1
                      /\ UNCHANGED << pc, backoff_mqtt, failures, slept >>
                 ELSE /\ sleeps' = << POLL_SLEEP, 1000 * backoff_mqtt >>
                      /\ polls' = 0
                      /\ Failed("broker", backoff_mqtt)
                      /\ backoff_mqtt' = NextBackoff(backoff_mqtt)
                      /\ pc' = "mqtt_loop"
  /\ UNCHANGED << program, exit_status, exit_cause, lockVars, broker_session,
                  devVars, attempt, resume, idx, last_values, counterVars,
                  readHist, shutdown_event, connected_flag, loop_running,
                  backoff_main, periodic_ctr, connect_requested >>

\* _connect_huawei_with_retries: the test of the while loop and one
\* AsyncHuaweiSolar.create; its CancelledError leaves _run_once before the
\* try block, so nothing is published or closed
HuaweiAttempt ==
  /\ program = "async"
  /\ pc = "huawei_loop"
  /\ published' = << >>
  /\ IF shutdown_event
       THEN /\ sleeps' = << >>
            /\ Terminate(0, "shutdown")
            /\ UNCHANGED << failures, slept >>
       ELSE /\ touched_device' = TRUE
            /\ \E connected \in BOOLEAN :
                 IF connected
                   THEN /\ sleeps' = << >>
                        /\ hclient' = NextHandle
                        /\ open_handles' = open_handles \cup { NextHandle }
                        /\ Succeeded("device")
                        /\ periodic_ctr' = 0
                        /\ cycle' = 0
                        /\ pc' = "modbus_loop"
                        /\ backoff_huawei' = 1
                   ELSE /\ sleeps' = << 1000 * backoff_huawei >>
                        /\ Failed("device", backoff_huawei)
                        /\ backoff_huawei' = NextBackoff(backoff_huawei)
                        /\ UNCHANGED << pc, hclient, open_handles,
                                        periodic_ctr, cycle >>
            /\ UNCHANGED << program, exit_status, exit_cause, lockVars,
                            broker_session, status_retained, HSClientSync,
                            mode, attempt, resume, idx, last_values,
                            counterVars, reads, reconnect_calls, fail_run,
                            run_reconnects, saw_conflict, signature_fails,
                            tally, observed, shutdown_event,
                            connected_flag, loop_running, backoff_main,
                            backoff_mqtt, polls, connect_requested >>

\* _modbus_loop, lines 304-308, 335-336 and 345: the head of an iteration
ModbusLoop ==
  /\ program = "async"
  /\ pc = "modbus_loop"
  /\ published' = << >>
  /\ IF shutdown_event
       THEN /\ pc' = "finally"
            /\ sleeps' = << >>
            /\ UNCHANGED << periodic_ctr, idx, cycle >>
       ELSE IF ~broker_session
              THEN /\ sleeps' = << POLL_SLEEP >>
                   /\ UNCHANGED << pc, periodic_ctr, idx, cycle >>
              ELSE /\ cycle < MaxIterations
                   /\ periodic_ctr' = periodic_ctr + 1
                   /\ IF PeriodicDueAsync(periodic_ctr + 1)
                        THEN /\ pc' = "modbus_read"
                             /\ idx' = 1
                             /\ sleeps' = << >>
                             /\ UNCHANGED cycle
                        ELSE /\ sleeps' = << POLL_SLEEP >>
                             /\ cycle' = cycle + 1
                             /\ UNCHANGED << pc, idx >>
  /\ UNCHANGED << program, exit_status, exit_cause, lockVars, broker_session,
                  status_retained, devVars, attempt, resume, last_values,
                  counterVars, reads, reconnect_calls, fail_run,
                  run_reconnects, saw_conflict, signature_fails, observed,
                  tally, failures, slept,
                  shutdown_event, connected_flag, loop_running, backoff_main,
                  backoff_mqtt, backoff_huawei, polls, connect_requested >>

\* _modbus_loop, lines 337-345: one key of VARS_PERIODIC, read and published
\* inside one try; after the last key periodic_ctr = 0 and the sleep
ModbusRead ==
  /\ program = "async"
  /\ pc = "modbus_read"
  /\ LET key == VARS_PERIODIC_ASYNC[idx]
     IN  /\ reads' = [reads EXCEPT ![key] = @ + 1]
         /\ \E outcome \in ReadOutcomes :
              published' =
                IF outcome.raised \/ outcome.pub_raises
                  THEN << >>
                  ELSE << Pub(Topic(key), Str(outcome.val), FALSE,
                              broker_session) >>
  /\ IF idx < Len(VARS_PERIODIC_ASYNC)
       THEN /\ idx' = idx + 1
            /\ sleeps' = << >>
            /\ UNCHANGED << pc, periodic_ctr, cycle >>
       ELSE /\ idx' = 0
            /\ periodic_ctr' = 0
            /\ sleeps' = << POLL_SLEEP >>
            /\ cycle' = cycle + 1
            /\ pc' = "modbus_loop"
  /\ UNCHANGED << program, exit_status, exit_cause, lockVars, broker_session,
                  status_retained, devVars, attempt, resume, last_values,
                  counterVars, reconnect_calls, fail_run, run_reconnects,
                  saw_conflict, signature_fails, observed, failures, slept,
                  tally, shutdown_event,
                  connected_flag, loop_running, backoff_main, backoff_mqtt,
                  backoff_huawei, polls, connect_requested >>

\* _run_once's finally block, then main's else branch (lines 385-386)
Finally ==
  /\ program = "async"
  /\ pc = "finally"
  /\ published' = << Pub(STATUS_TOPIC, "offline", TRUE, broker_session) >>
  /\ status_retained' = IF broker_session THEN "offline" ELSE status_retained
  /\ broker_session' = FALSE
  /\ connected_flag' = FALSE
  /\ loop_running' = FALSE
  /\ connect_requested' = FALSE
  /\ open_handles' = open_handles \ { hclient }
  /\ hclient' = 0
  /\ sleeps' = << RESTART_DELAY >>
  /\ backoff_main' = 1
  /\ Succeeded("top")
  /\ pc' = "main_loop"
  /\ UNCHANGED << program, exit_status, exit_cause, lockVars, HSClientSync,
                  mode, touched_device, attempt, resume, idx, last_values,
                  counterVars, readHist, shutdown_event, backoff_mqtt,
                  backoff_huawei, polls, periodic_ctr >>

Next ==
  \/ AcquireLock
  \/ RivalStart
  \/ RivalExit
  \/ ResolvePort
  \/ MqttConnectBlocking
  \/ HuaweiConnect
  \/ CycleStart
  \/ ReadImmediate
  \/ ReadPeriodic
  \/ ReconnectHuawei
  \/ PeriodicTick
  \/ CycleEnd
  \/ Interrupt
  \/ Signal
  \/ NetConnAck
  \/ NetDisconnect
  \/ AsyncMain
  \/ MainLoop
  \/ MqttSetup
  \/ MqttAttempt
  \/ MqttPoll
  \/ HuaweiAttempt
  \/ ModbusLoop
  \/ ModbusRead
  \/ Finally

Spec == Init /\ [][Next]_vars

\* ------------------------------------- main.py: the change detector alone
\* _safe_read_and_publish and _changed applied to every cache and every
\* register value: finite numbers, not-a-number, text
DetectorKeys == SeqRange(VARS_IMMEDIATE)
DetectorValues ==
  { Num(n) : n \in 0..MaxValue } \cup { NaN, Text("a"), Text("b") }
DetectorOutcomes ==
  { [raised |-> FALSE, val |-> v, msg |-> << >>, pub_raises |-> b] :
      v \in DetectorValues, b \in BOOLEAN }
  \cup { [raised |-> TRUE, val |-> NaN, msg |-> m, pub_raises |-> FALSE] :
           m \in ErrorTexts }

\* the caches _last_values can hold: a value for some of the keys
DetectorCaches ==
  UNION { [ks -> DetectorValues] : ks \in SUBSET DetectorKeys }

\* main.py in its poll loop after a clean startup, with any cache
InitDetector ==
  /\ program = "main"
  /\ pc = "read_immediate"
  /\ exit_status = -1
  /\ exit_cause = "none"
  /\ flock_holders = { "self" }
  /\ lock_file = Pid("self")
  /\ rival = "absent"
  /\ last_acquire = [proc |-> "self", held |-> FALSE, ok |-> TRUE]
  /\ touched_device = TRUE
  /\ attempt = 0
  /\ sleeps = << >>
  /\ broker_session = TRUE
  /\ status_retained = ONLINE_MAIN
  /\ published = << >>
  /\ observed = NoRead
  /\ HSClientSync = TRUE
  /\ mode = "sync"
  /\ hclient = 1
  /\ open_handles = { 1 }
  /\ resume = [phase |-> "startup", idx |-> 0]
  /\ idx = 1
  /\ periodic_tick = 0
  /\ read_ok_total = 0
  /\ read_fail_total = 0
  /\ consecutive_fail_reads = 0
  /\ consecutive_conflicts = 0
  /\ ok = 0
  /\ fail = 0
  /\ cycle_conflicts = 0
  /\ last_values \in DetectorCaches
  /\ cycle = 1
  /\ reads = [k \in AllKeys |-> 0]
  /\ reconnect_calls = 0
  /\ fail_run = 0
  /\ run_reconnects = 0
  /\ saw_conflict = FALSE
  /\ signature_fails = 0
  /\ tally = [cycle_reads |-> 0, sum_ok |-> 0, sum_fail |-> 0]
  /\ failures = [e \in Endpoints |-> 0]
  /\ slept = [e \in Endpoints |-> 0]
  /\ shutdown_event = FALSE
  /\ connected_flag = FALSE
  /\ loop_running = FALSE
  /\ backoff_main = 1
  /\ backoff_mqtt = 1
  /\ backoff_huawei = 1
  /\ polls = 0
  /\ periodic_ctr = 0
  /\ connect_requested = FALSE

\* one call of _safe_read_and_publish, for any key and any outcome of the read
Observe ==
  /\ pc = "read_immediate"
  /\ \E key \in DetectorKeys, outcome \in DetectorOutcomes :
       LET r == SafeReadAndPublish(last_values, key, outcome)
       IN  /\ last_values' = r.cache
           /\ published' = r.published
           /\ observed' = [key |-> key, raised |-> outcome.raised,
                           val |-> outcome.val]
  /\ UNCHANGED << lockVars, procVars, broker_session, status_retained,
                  devVars, connVars, idx, counterVars, cycle, reads,
                  reconnect_calls, fail_run, run_reconnects, saw_conflict,
                  signature_fails, tally,
                  failures, slept, asyncVars >>

NextDetector == Observe

SpecDetector == InitDetector /\ [][NextDetector]_vars

\* ------------------------------------------------------------------ claims
GaveUp == pc = "exited" /\ exit_cause = "uncaught"

\* C1 (as stated): connect failures are retried indefinitely: a program with
\* failed connect attempts behind it is still running, or it ended on an
\* external shutdown; it never gives up on an endpoint.
C1_NeverGivesUp ==
  (\E e \in { "broker", "device" } : failures[e] > 0)
    => (pc # "exited" \/ exit_cause \in { "interrupt", "shutdown" })

\* C2: at most one process holds the lock and only a live process holds it;
\* an acquire made while the lock was held failed, an acquire made while it
\* was free (never taken, or its holder gone) succeeded.
C2_MutualExclusion ==
  /\ Cardinality(flock_holders) <= 1
  /\ "self" \in flock_holders <=> (program = "main" /\ pc \notin { "boot", "exited" })
  /\ "rival" \in flock_holders <=> rival = "running"
  /\ last_acquire.proc # "none" => (last_acquire.ok <=> ~last_acquire.held)

\* a refused instance is gone and the rival, having ended and started again,
\* holds the lock it was granted when it found the lock free
C2_Witness ==
  /\ exit_cause = "lock"
  /\ last_acquire = [proc |-> "rival", held |-> FALSE, ok |-> TRUE]
  /\ flock_holders = { "rival" }

LockRefused ==
  exit_cause = "lock" \/ (last_acquire.proc = "self" /\ ~last_acquire.ok)

\* C3: an instance that found the lock held has ended, in that very step,
\* with exit status 1; it holds no lock, has opened no connection to the
\* inverter or the broker, has made no connect attempt and no read.
C3_LockHeldIsFatal ==
  LockRefused =>
    /\ pc = "exited"
    /\ exit_status = 1
    /\ exit_cause = "lock"
    /\ "self" \notin flock_holders
    /\ ~touched_device
    /\ ~broker_session
    /\ open_handles = {}
    /\ \A e \in Endpoints : failures[e] = 0
    /\ \A k \in AllKeys : reads[k] = 0

C3_Witness ==
  /\ exit_cause = "lock"
  /\ last_acquire = [proc |-> "self", held |-> TRUE, ok |-> FALSE]
  /\ rival = "running"

\* C4 (as stated): nothing but lock contention (and the external shutdown)
\* ends the process.
C4_OnlyLockIsFatal ==
  pc = "exited" => exit_cause \in { "lock", "interrupt", "shutdown" }

\* C5: every backoff delay, of every retry loop of both programs, the one
\* held for the next retry and the one slept last, is in [1, 60].
C5_BackoffInRange ==
  /\ backoff_main \in 1..MAX_BACKOFF
  /\ backoff_mqtt \in 1..MAX_BACKOFF
  /\ backoff_huawei \in 1..MAX_BACKOFF
  /\ \A e \in Endpoints : failures[e] > 0 => slept[e] \in 1..MAX_BACKOFF
  /\ attempt > 0 => BackoffOf(attempt) \in 1..MAX_BACKOFF

C5_Witness ==
  /\ program = "async"
  /\ pc = "mqtt_loop"
  /\ failures["broker"] >= 7
  /\ slept["broker"] = MAX_BACKOFF
  /\ backoff_mqtt = MAX_BACKOFF

\* the delay of failure number k of a run that starts at 1 and whose every
\* step is min(2 * delay, cap)
RECURSIVE ExpectedDelay(_, _)
ExpectedDelay(k, cap) ==
  IF k <= 1 THEN Min(1, cap) ELSE Min(2 * ExpectedDelay(k - 1, cap), cap)

\* the cap of a program's schedule: 60 in huawei_mqtt.py, the last entry of
\* the fixed schedule (30) in main.py
CapOf(prog) == IF prog = "main" THEN BACKOFFS[Len(BACKOFFS)] ELSE MAX_BACKOFF

\* C6: in a run of consecutive failures of an endpoint the delay slept after
\* failure number k is that of a schedule that starts at 1 after every
\* success and whose every step is min(2 * delay, max_delay): it never
\* decreases within the run; and the delay held for the next retry of
\* huawei_mqtt.py's loops is the next of that schedule.
C6_BackoffSchedule ==
  /\ \A e \in Endpoints :
       slept[e] = IF failures[e] = 0 THEN 0
                  ELSE ExpectedDelay(failures[e], CapOf(program))
  /\ (program = "async" /\ pc # "exited") =>
       /\ backoff_main = ExpectedDelay(failures["top"] + 1, MAX_BACKOFF)
       /\ pc \in { "mqtt_loop", "mqtt_wait" } =>
            backoff_mqtt = ExpectedDelay(failures["broker"] + 1, MAX_BACKOFF)
       /\ pc = "huawei_loop" =>
            backoff_huawei = ExpectedDelay(failures["device"] + 1, MAX_BACKOFF)

\* after the success of the startup connect, the connect loop of a forced
\* reconnect has failed twice: it slept 1, then 2
C6_Witness ==
  /\ program = "main"
  /\ reconnect_calls >= 1
  /\ pc = "huawei_connect"
  /\ failures["device"] = 2
  /\ slept["device"] = 2

\* the schedule the claim gives: 1, 2, 4, 8, 16, then 30 for ever
ClaimedBrokerDelay(k) == IF k <= 5 THEN 2 ^ (k - 1) ELSE 30

BrokerJustConnected ==
  \/ program = "main" /\ pc = "huawei_connect" /\ attempt = 1
       /\ resume.phase = "startup"
  \/ program = "async" /\ pc = "huawei_loop" /\ failures["device"] = 0

\* C7 (as stated): while the broker is unreachable the retry sleeps are
\* 1, 2, 4, 8, 16, 30, 30, ... and the supervisor keeps retrying; when the
\* connect has succeeded a retained "online" was published on the status topic.
C7_BrokerRetrySchedule ==
  /\ failures["broker"] > 0 =>
       /\ slept["broker"] = ClaimedBrokerDelay(failures["broker"])
       /\ ~GaveUp
  /\ BrokerJustConnected =>
       \E i \in DOMAIN published :
         /\ published[i].topic = STATUS_TOPIC
         /\ published[i].payload \in { "online", ONLINE_MAIN }
         /\ published[i].retain

\* C8 (as stated): after 2 x N cycles, N the periodic period, every key of
\* the frequent set was read 2 x N times and every key of the periodic set
\* twice (N is PERIODIC_EVERY in main.py and 6 in huawei_mqtt.py).
C8_Cadence ==
  /\ (program = "main" /\ pc = "cycle_start" /\ cycle = 2 * PERIODIC_EVERY) =>
       /\ \A k \in SeqRange(VARS_IMMEDIATE) : reads[k] = 2 * PERIODIC_EVERY
       /\ \A k \in SeqRange(VARS_PERIODIC) : reads[k] = 2
  /\ (program = "async" /\ pc = "modbus_loop"
        /\ cycle = 2 * (PERIODIC_AFTER + 1)) =>
       /\ \A k \in SeqRange(VARS_IMMEDIATE_ASYNC) :
            reads[k] = 2 * (PERIODIC_AFTER + 1)
       /\ \A k \in SeqRange(VARS_PERIODIC_ASYNC) : reads[k] = 2

Reconnecting ==
  pc = "reconnect" \/ (pc = "huawei_connect" /\ resume.phase # "startup")

\* C9: in a run of n consecutive failed reads (of any keys, of either set,
\* across cycles) _reconnect_huawei has been called n div 6 times: not at all
\* below six, once at six; while the call runs the counter is 6, and once it
\* has returned the counter is n mod 6: zero at six.
C9_ReconnectTrigger ==
  program = "main" =>
    /\ run_reconnects = fail_run \div FAIL_RECONNECT_THRESHOLD
    /\ Reconnecting => consecutive_fail_reads = FAIL_RECONNECT_THRESHOLD
    /\ (pc # "exited" /\ ~Reconnecting) =>
         consecutive_fail_reads = fail_run % FAIL_RECONNECT_THRESHOLD

\* six failed reads in a row that span three cycles, one reconnect, done
C9_Witness ==
  /\ program = "main"
  /\ fail_run = FAIL_RECONNECT_THRESHOLD
  /\ run_reconnects = 1
  /\ reconnect_calls = 1
  /\ ~Reconnecting
  /\ pc # "exited"
  /\ consecutive_fail_reads = 0
  /\ read_ok_total = 0
  /\ cycle >= 3

\* C10 (as stated): a cycle that saw a conflict is followed by the cooldown
\* instead of the inter-cycle interval, any other cycle by the interval.
C10_CooldownInsteadOfInterval ==
  (program = "main" /\ pc = "cycle_start" /\ cycle >= 1) =>
    sleeps = IF saw_conflict THEN << COOLDOWN_ON_CONFLICT_S >>
                             ELSE << READ_INTERVAL >>

\* C10 (amended): a cycle that saw a conflict is followed by the cooldown and
\* then by the inter-cycle interval as well, any other cycle by the interval
\* alone.
C10_CooldownThenInterval ==
  (program = "main" /\ pc = "cycle_start" /\ cycle >= 1) =>
    sleeps = IF saw_conflict
               THEN << COOLDOWN_ON_CONFLICT_S, READ_INTERVAL >>
               ELSE << READ_INTERVAL >>

C10_Witness ==
  /\ program = "main"
  /\ pc = "cycle_start"
  /\ cycle >= 1
  /\ saw_conflict
  /\ cycle_conflicts >= 1
  /\ sleeps = << COOLDOWN_ON_CONFLICT_S, READ_INTERVAL >>

\* a number that is not a not-a-number. With PUBLISH_CHANGED_ONLY a value is
\* handed to _publish iff _changed returned True, so the publish of a step
\* is the verdict of its call
Finite(v) == v.kind = "num"

\* C11: a successful read of a key with no cache entry is reported changed,
\* whatever the value; of a finite number at a distance below CHANGE_EPS from
\* the finite cached value, not changed; at a distance of at least
\* CHANGE_EPS, changed.
C11_ChangeDetector ==
  [][LET k == observed'.key
         v == observed'.val
     IN  (observed' # observed /\ ~observed'.raised) =>
           /\ k \notin DOMAIN last_values => published' # << >>
           /\ (k \in DOMAIN last_values /\ Finite(v)
                 /\ Finite(last_values[k])) =>
                (published' # << >>
                   <=> Abs(v.v - last_values[k].v) >= CHANGE_EPS)]_vars

\* a value one half of CHANGE_EPS away from the cached one was read and
\* not published
C11_Witness ==
  /\ observed = [key |-> "INPUT_POWER", raised |-> FALSE, val |-> Num(1)]
  /\ "INPUT_POWER" \in DOMAIN last_values
  /\ last_values["INPUT_POWER"] = Num(0)
  /\ published = << >>

\* C12: a not-a-number read of a key whose previous read was a not-a-number
\* too is not reported changed; nor is any not-a-number read of a key whose
\* cached value is a number or a not-a-number.
C12_NaNTwice ==
  [][LET k == observed'.key
     IN  (~observed'.raised /\ IsNaN(observed'.val)) =>
           /\ (observed.key = k /\ ~observed.raised /\ IsNaN(observed.val))
                => (published' = << >> /\ last_values' = last_values)
           /\ (k \in DOMAIN last_values /\ IsNumber(last_values[k]))
                => (published' = << >> /\ last_values' = last_values)]_vars

\* the second of two not-a-number reads of a key: the first was published
\* on a cache miss and is cached, the second was not published
C12_Witness ==
  /\ observed = [key |-> "INPUT_POWER", raised |-> FALSE, val |-> NaN]
  /\ "INPUT_POWER" \in DOMAIN last_values
  /\ IsNaN(last_values["INPUT_POWER"])
  /\ published = << >>

\* the step in which the process ends on an external shutdown signal
ShutdownExit ==
  pc # "exited" /\ pc' = "exited" /\ exit_cause' \in { "shutdown", "interrupt" }

\* C13 (as stated): on every shutdown path the program has, before the
\* process ends, published the retained "offline" and closed the broker and
\* the device connection: nothing is left open for the exit to tear down.
C13_OrderlyShutdown ==
  [][ShutdownExit =>
       /\ ~broker_session
       /\ ~loop_running
       /\ open_handles = {}
       /\ status_retained \in { "none", "offline" }]_vars

\* the position of a key in its set
PosIn(keys, k) == CHOOSE i \in DOMAIN keys : keys[i] = k

\* a step of main.py that reads a key
MainReads == program = "main" /\ reads' # reads

\* the key that step reads
KeyRead == CHOOSE k \in AllKeys : reads'[k] # reads[k]

\* C14: when a key of the frequent set is read, the keys of the set already
\* read in this cycle are exactly those before it in the configured order,
\* each once; when a key of the periodic set is read, every key of the
\* frequent set has been read in this cycle and the periodic keys already
\* read in this round are exactly those before it; whether or not a
\* reconnect happened in the cycle.
C14_ReadOrder ==
  [][MainReads =>
       LET k == KeyRead
       IN  /\ reads' = [reads EXCEPT ![k] = @ + 1]
           /\ k \in SeqRange(VARS_IMMEDIATE) =>
                \A j \in DOMAIN VARS_IMMEDIATE :
                  reads[VARS_IMMEDIATE[j]] =
                    IF j < PosIn(VARS_IMMEDIATE, k) THEN cycle ELSE cycle - 1
           /\ k \in SeqRange(VARS_PERIODIC) =>
                /\ \A f \in SeqRange(VARS_IMMEDIATE) : reads[f] = cycle
                /\ \A j \in DOMAIN VARS_PERIODIC :
                     reads[VARS_PERIODIC[j]] =
                       IF j < PosIn(VARS_PERIODIC, k)
                         THEN reads[k] + 1 ELSE reads[k]
           /\ k \in SeqRange(VARS_IMMEDIATE) \cup SeqRange(VARS_PERIODIC)]_vars

\* the sixth failed read in a row was that of the first frequent key of this
\* cycle, the reconnect followed, and the second key has now been read
C14_Witness ==
  /\ program = "main"
  /\ resume = [phase |-> "read_immediate", idx |-> 1]
  /\ reconnect_calls = 1
  /\ observed.key = VARS_IMMEDIATE[2]
  /\ observed.raised
  /\ fail_run = FAIL_RECONNECT_THRESHOLD + 1
  /\ consecutive_fail_reads = 1
  /\ pc = "periodic_tick"
  /\ \A f \in SeqRange(VARS_IMMEDIATE) : reads[f] = cycle

\* C15: a failed read publishes nothing, leaves _last_values as it was,
\* adds one to the failure counts of the cycle and of the process and to the
\* consecutive-failure counter, and does not end the process; and whatever
\* reads failed, at the end of a cycle every key of the frequent set has been
\* read once in each cycle and every key of the periodic set once in each
\* cycle in which the set was due.
C15_FailedReadSkipped ==
  [][/\ (MainReads /\ observed'.raised) =>
          /\ published' = << >>
          /\ last_values' = last_values
          /\ fail' = fail + 1
          /\ ok' = ok
          /\ read_fail_total' = read_fail_total + 1
          /\ consecutive_fail_reads' = consecutive_fail_reads + 1
          /\ pc' # "exited"
     /\ (program = "main" /\ pc = "cycle_end" /\ pc' = "cycle_start") =>
          /\ \A f \in SeqRange(VARS_IMMEDIATE) : reads[f] = cycle
          /\ \A q \in SeqRange(VARS_PERIODIC) :
               reads[q] = cycle \div PERIODIC_EVERY
          /\ ok + fail = Len(VARS_IMMEDIATE)
               + (IF cycle % PERIODIC_EVERY = 0 THEN Len(VARS_PERIODIC)
                                                 ELSE 0)]_vars

\* a cycle in which the periodic set was due has ended: two of its three
\* reads failed, the last one among them, and every key was read
C15_Witness ==
  /\ program = "main"
  /\ pc = "cycle_start"
  /\ cycle = PERIODIC_EVERY
  /\ fail = 2
  /\ ok = 1
  /\ observed.raised
  /\ observed.key = VARS_PERIODIC[Len(VARS_PERIODIC)]
  /\ \A f \in SeqRange(VARS_IMMEDIATE) : reads[f] = cycle
  /\ \A q \in SeqRange(VARS_PERIODIC) : reads[q] = 1

\* the publish of the last read was handed to _publish and failed
PublishFailed == published # << >> /\ ~published[1].delivered

\* C16 (as stated): when the publish of a key has failed, the next
\* successful read of that key leads to a publish attempt for it.
C16_PublishSuperseded ==
  [][(PublishFailed /\ ~observed.raised /\ ~observed'.raised
        /\ observed'.key = observed.key)
       => (published' # << >>
             /\ published'[1].topic = Topic(observed.key))]_vars

\* C17 (as stated): while huawei_mqtt.py polls with its broker connection
\* up, the retained status at the broker is "online": every connect, a
\* reconnect after a loss of the transport included, was followed by the
\* retained publish.
C17_OnlineWhileConnected ==
  (program = "async" /\ pc \in { "modbus_loop", "modbus_read" }
     /\ broker_session /\ connected_flag)
    => status_retained = "online"

IsOnline(m) ==
  m.topic = STATUS_TOPIC /\ m.payload \in { "online", ONLINE_MAIN }

\* C18 (as stated): "online" is published only on a connection the broker
\* has acknowledged, within a wait of at most 30 polls.
C18_OnlineOnlyWhenConnected ==
  /\ polls \in 0..MQTT_WAIT_POLLS
  /\ \A i \in DOMAIN published :
       IsOnline(published[i]) => published[i].delivered

\* C19: while the process lives no entry of _last_values is removed; an
\* entry is created or overwritten only by a successful read of its own key
\* that is reported changed (and so handed to _publish), and it then holds the
\* value read; a step that publishes nothing (a failed read, a read reported
\* unchanged, any step that is no read) leaves every entry as it was; a
\* successful read of a key with no entry creates the entry.
C19_CacheFrame ==
  [][(program = "main" /\ pc' # "exited") =>
       /\ DOMAIN last_values \subseteq DOMAIN last_values'
       /\ \A k \in DOMAIN last_values' :
            (k \notin DOMAIN last_values \/ last_values'[k] # last_values[k])
              => /\ observed'.key = k
                 /\ ~observed'.raised
                 /\ observed'.val = last_values'[k]
                 /\ published' # << >>
                 /\ published'[1].topic = Topic(k)
                 /\ \A j \in DOMAIN last_values \ { k } :
                      last_values'[j] = last_values[j]
       /\ published' = << >> => last_values' = last_values
       /\ (MainReads /\ ~observed'.raised) =>
            observed'.key \in DOMAIN last_values']_vars

\* the entry of the first key, created in the first cycle, is still there in
\* a later cycle while every read of the second key has failed
C19_Witness ==
  /\ program = "main"
  /\ cycle >= 2
  /\ DOMAIN last_values = { VARS_IMMEDIATE[1] }
  /\ last_values[VARS_IMMEDIATE[1]] = Num(2)
  /\ observed.key = VARS_IMMEDIATE[2]
  /\ observed.raised
  /\ reads[VARS_IMMEDIATE[2]] = 2
  /\ read_ok_total = 2

\* C20 (as stated): _reconnect_huawei closes the old handle before the new
\* connection is opened, in every client mode: the process never holds two
\* open device connections.
C20_SingleDeviceConnection == Cardinality(open_handles) <= 1

\* main.py is inside a poll cycle or between two of them
InCycle ==
  program = "main"
    /\ (pc \in { "read_immediate", "periodic_tick", "read_periodic",
                 "cycle_end" }
          \/ (Reconnecting /\ pc # "exited"))

\* C21: cycle_conflicts is 0 when a cycle has started and no key has been
\* read in it yet; throughout a cycle and at its end it equals the number of
\* that cycle's failed reads whose error text contains a signature, so a
\* successful read never counts and it never exceeds the cycle's failures;
\* and the cooldown is slept after a cycle iff that cycle had such a failure.
C21_ConflictCount ==
  /\ InCycle =>
       /\ cycle_conflicts = signature_fails
       /\ cycle_conflicts <= fail
       /\ (\A k \in SeqRange(VARS_IMMEDIATE) : reads[k] = cycle - 1)
            => cycle_conflicts = 0
  /\ (program = "main" /\ pc = "cycle_start" /\ cycle >= 1) =>
       /\ cycle_conflicts = signature_fails
       /\ (sleeps[1] = COOLDOWN_ON_CONFLICT_S <=> signature_fails > 0)

\* a cycle with the periodic set has ended with three failed reads, two of
\* them with a signature in the text, after an earlier cycle without failure
C21_Witness ==
  /\ program = "main"
  /\ pc = "cycle_start"
  /\ cycle = PERIODIC_EVERY
  /\ fail = 3
  /\ signature_fails = 2
  /\ cycle_conflicts = 2
  /\ read_fail_total = 3
  /\ sleeps = << COOLDOWN_ON_CONFLICT_S, READ_INTERVAL >>

\* a poll cycle has been started and is not finished
MidCycle == InCycle \/ (program = "async" /\ pc = "modbus_read")

\* C22 (as stated): a shutdown signal does not preempt a cycle: the process
\* never ends on a signal while a cycle is under way, the signal is honoured
\* at the next cycle boundary.
C22_NoMidCyclePreemption == [][ShutdownExit => ~MidCycle]_vars

\* huawei_mqtt.py is in its poll loop and the broker is not connected
PollingDisconnected ==
  program = "async" /\ pc \in { "modbus_loop", "modbus_read" }
    /\ ~broker_session

\* C23 (as stated): while the broker is not connected the poll loop of
\* huawei_mqtt.py issues no device read and no publish and leaves the
\* periodic tick where it is.
C23_NoPollWhileDisconnected ==
  [][PollingDisconnected =>
       /\ reads' = reads
       /\ periodic_ctr' = periodic_ctr
       /\ (published' = << >> \/ published' = published)]_vars

\* a successful read of key k returning v is the step under way
ReadsValue(k, v) ==
  observed' # observed /\ ~observed'.raised
    /\ observed'.key = k /\ observed'.val = v

\* C24 (as stated): a finite number read of a key whose cached value is a
\* not-a-number is published and replaces the cached value, and a
\* not-a-number read of a key whose cached value is a finite number is
\* published.
C24_NeverStuckOnNaN ==
  [][\A k \in DOMAIN last_values : \A v \in DetectorValues :
       ReadsValue(k, v) =>
         /\ (IsNaN(last_values[k]) /\ Finite(v)) =>
              (published' # << >> /\ last_values'[k] = v)
         /\ (Finite(last_values[k]) /\ IsNaN(v)) => published' # << >>]_vars

\* C25: a successful read of a finite number, of a key whose cache entry is
\* absent or is not a not-a-number (as it is while every read of the key
\* returned a finite number), leaves a finite number in the cache at a
\* distance below CHANGE_EPS from the value read, published or not.
C25_BoundedStaleness ==
  [][\A k \in DetectorKeys : \A v \in DetectorValues :
       (ReadsValue(k, v) /\ Finite(v)
          /\ (k \in DOMAIN last_values => ~IsNaN(last_values[k]))) =>
         /\ k \in DOMAIN last_values'
         /\ Finite(last_values'[k])
         /\ Abs(last_values'[k].v - v.v) < CHANGE_EPS]_vars

\* a value that drifted one half of CHANGE_EPS above the published one was
\* read and suppressed: the cache still holds the published value
C25_Witness ==
  /\ observed = [key |-> "ACTIVE_POWER", raised |-> FALSE, val |-> Num(3)]
  /\ "ACTIVE_POWER" \in DOMAIN last_values
  /\ last_values["ACTIVE_POWER"] = Num(2)
  /\ published = << >>

\* the step from the last read of a cycle to the head of the next cycle, in
\* which the health snapshot is published
EndsCycle == program = "main" /\ pc = "cycle_end" /\ pc' = "cycle_start"

\* C26: the health snapshot of a cycle has cycle_ok + cycle_fail equal to
\* the reads issued in the cycle and conflicts <= cycle_fail, its cumulative
\* counters are the sums of ok and of fail over the cycles so far; the
\* cumulative counters never decrease while the process lives; and the
\* reconnect, the cooldown and the periodic reads are decided by the
\* consecutive-failure counter, the conflicts of the cycle and the periodic
\* tick alone.
C26_HealthAccounting ==
  [][/\ EndsCycle =>
          LET h == published'[1].payload
          IN  /\ published'[1].topic = HEALTH_TOPIC
              /\ h.cycle_ok + h.cycle_fail = tally.cycle_reads
              /\ h.conflicts <= h.cycle_fail
              /\ h.ok_total = tally'.sum_ok
              /\ h.fail_total = tally'.sum_fail
              /\ (sleeps'[1] = COOLDOWN_ON_CONFLICT_S <=> h.conflicts > 0)
     /\ (program = "main" /\ pc' # "exited") =>
          /\ read_ok_total' >= read_ok_total
          /\ read_fail_total' >= read_fail_total
     /\ MainReads =>
          (pc' = "reconnect"
             <=> consecutive_fail_reads' >= FAIL_RECONNECT_THRESHOLD)
     /\ (program = "main" /\ pc = "periodic_tick" /\ pc' # "exited") =>
          (pc' = "read_periodic" <=> periodic_tick' >= PERIODIC_EVERY)]_vars

\* a cycle ended whose snapshot counts one read that succeeded and two that
\* failed, after an earlier cycle: the totals are above the cycle's counters
C26_Witness ==
  /\ program = "main"
  /\ pc = "cycle_start"
  /\ cycle >= 2
  /\ published # << >>
  /\ published[1].topic = HEALTH_TOPIC
  /\ published[1].payload.cycle_ok = 1
  /\ published[1].payload.cycle_fail = 2
  /\ published[1].payload.ok_total > 1
  /\ tally.sum_fail = published[1].payload.fail_total

\* C27: a read of main.py is issued with the consecutive-failure counter in
\* 0..FAIL_RECONNECT_THRESHOLD-1, a read that succeeds leaves the counter at
\* 0, and at the head of every cycle the periodic tick is in
\* 0..PERIODIC_EVERY-1.
C27_CounterBounds ==
  [][/\ MainReads =>
          /\ consecutive_fail_reads \in 0..(FAIL_RECONNECT_THRESHOLD - 1)
          /\ ~observed'.raised => consecutive_fail_reads' = 0
     /\ (program = "main" /\ pc' = "cycle_start") =>
          periodic_tick' \in 0..(PERIODIC_EVERY - 1)
     /\ (program = "main" /\ pc = "cycle_start" /\ pc' = "read_immediate") =>
          periodic_tick \in 0..(PERIODIC_EVERY - 1)]_vars

\* a read is about to be issued with the counter at the top of its range,
\* after failures that span more than one cycle
C27_Witness ==
  /\ program = "main"
  /\ pc = "read_immediate"
  /\ cycle >= 2
  /\ consecutive_fail_reads = FAIL_RECONNECT_THRESHOLD - 1
  /\ periodic_tick \in 0..(PERIODIC_EVERY - 1)

====
